---- MODULE Spec2Model ----
(***************************************************************************)
(* HandlebarsRenderer (src/index.js): the template store, the restorer of  *)
(* precompiled templates, the pre-processor, the decorator chain and the   *)
(* render pipeline, as a state machine over one renderer instance.         *)
(*                                                                         *)
(* Text is a sequence of tokens.  A template source is one token naming    *)
(* its body; rendered output is the sequence of the pieces written.        *)
(***************************************************************************)
EXTENDS Naturals, Sequences, FiniteSets, TLC

\* ------------------------------------------------------------ bounds
\* Longest decorator chain explored.
MaxDecorators == 2
MaxHelpers == 3

\* ------------------------------------------------------------ JS values
JsUndefined == [type |-> "undefined"]
JsString(text) == [type |-> "string", text |-> text]
JsFunction(source) == [type |-> "function", source |-> source]

\* The logical paths of partials used by the callers.
Paths == {"a", "b"}

\* Template bodies: "page" writes the context's template and locale_name and
\* the injected key, and injects the key into the helpers' storage; "boom"
\* calls a helper that is not registered; "bad" is an unbalanced block.
Sources == {"page", "boom", "bad"}

\* A caller's context: null, or an object with the two fields render writes
\* ("undefined" when the object has no such field).
NullContext == [object |-> FALSE, template |-> "undefined", locale_name |-> "undefined"]
EmptyObject == [object |-> TRUE, template |-> "undefined", locale_name |-> "undefined"]
OldContext == [object |-> TRUE, template |-> "old", locale_name |-> "old"]
Contexts == {NullContext, OldContext}

\* Translators: getLocale() returns the locale, or throws.
NoTranslator == [set |-> FALSE, locale |-> "none", throws |-> FALSE]
Translator(locale) == [set |-> TRUE, locale |-> locale, throws |-> FALSE]
FailingTranslator == [set |-> TRUE, locale |-> "none", throws |-> TRUE]
Translators == {Translator("en"), Translator("fr"), FailingTranslator}

\* Decorators: "A" and "B" append their letter, "X" throws.
Decorators == {"A", "B", "X"}

\* Content regions: sets of region names.
Regions == {{"header"}, {"footer"}}

\* ------------------------------------------------------------ errors
TypedErrors == {"CompileError", "FormatError", "RenderError", "DecoratorError",
                "TemplateNotFoundError"}
NoError == [kind |-> "none", message |-> <<>>, path |-> "none"]
\* new AppError(message, context): context is {path} or absent.
AppError(kind, message, path) == [kind |-> kind, message |-> message, path |-> path]
\* An error thrown by a collaborator and not caught by the renderer.
Untyped(message) == [kind |-> "Error", message |-> message, path |-> "none"]

\* ------------------------------------------------------------ the engine
\* this.handlebars: HandlebarsV3.create() unless hbVersion is 'v4'.  The model
\* follows the default; "v4" is the other engine, whose artifacts this one
\* refuses.
hbVersion == "v3"
Versions == {"v3", "v4"}

QCompiler == "\"compiler\""
QMain == "\"main\""

\* The engine's serialization of a precompiled template:
\* {"compiler":[<version>],"main":function<body>}
Artifact(source, version) ==
    <<"{", QCompiler, ":", "[", version, "]", ",", QMain, ":", "function", source, "}">>

\* handlebars.precompile(template, handlebarsOptions): parses at once; throws
\* on a non-string and on a syntax error.
precompile(template) ==
    IF template.type # "string"
    THEN [ok |-> FALSE, value |-> JsUndefined,
          message |-> <<"You must pass a string to Handlebars.precompile">>]
    ELSE IF template.text = <<"bad">>
    THEN [ok |-> FALSE, value |-> JsUndefined, message |-> <<"Parse error">>]
    ELSE [ok |-> TRUE, value |-> JsString(Artifact(template.text[1], hbVersion)),
          message |-> <<>>]

\* handlebars.compile(template): throws on a non-string; the returned function
\* parses its source when it is first called.
compile(template) ==
    IF template.type # "string"
    THEN [ok |-> FALSE, value |-> JsUndefined,
          message |-> <<"You must pass a string to Handlebars.compile">>]
    ELSE [ok |-> TRUE, value |-> JsFunction(template.text[1]), message |-> <<>>]

\* What a helper prints of the content regions it reads.
Region(content) == IF content = {} THEN "" ELSE CHOOSE r \in content : TRUE

\* Running a template body with a context, the helpers' storage and the
\* content regions the helper context's getContent hands them.
Execute(source, context, store, content) ==
    CASE source = "page" ->
           [ok |-> TRUE,
            out |-> <<context.template, context.locale_name,
                      IF "k" \in store THEN "k" ELSE "", Region(content)>>,
            storage |-> store \cup {"k"}, message |-> <<>>]
      [] source = "boom" ->
           [ok |-> FALSE, out |-> <<>>, storage |-> store,
            message |-> <<"Missing helper">>]
      [] OTHER ->
           [ok |-> FALSE, out |-> <<>>, storage |-> store,
            message |-> <<"Parse error">>]

\* template(context): a call of the value found in the store.  Calling a value
\* that is not a function is a TypeError.
CallTemplate(template, context, store, content) ==
    IF template.type = "function"
    THEN Execute(template.source, context, store, content)
    ELSE [ok |-> FALSE, out |-> <<>>, storage |-> store,
          message |-> <<"template is not a function">>]

\* handlebars.registerPartial(path, template): stores the value as it is;
\* throws on undefined.
registerPartial(parts, path, template) ==
    IF template.type = "undefined"
    THEN [ok |-> FALSE, partials |-> parts,
          message |-> <<"Attempting to register a partial as undefined">>]
    ELSE [ok |-> TRUE, partials |-> [parts EXCEPT ![path] = template],
          message |-> <<>>]

\* fn(result) for a decorator.
Decorate(fn, result) ==
    IF fn = "X"
    THEN [ok |-> FALSE, value |-> result, message |-> <<"decorator failed">>]
    ELSE [ok |-> TRUE, value |-> Append(result, fn), message |-> <<>>]

\* The same object literal laid out by a formatter: a space on each side of
\* the first colon and a line break between the two keys.
SpacedArtifact(source, version) ==
    <<"{", QCompiler, " ", ":", " ", "[", version, "]", ",", "\n",
      QMain, ":", "function", source, "}">>

\* ------------------------------------------------------------ the classifier
\* /.*"compiler"\w*:\w*\[.*"main"\w*:\w*function/ run over the tokens: each
\* step maps the set of positions the match may stand at to the next set.
IsWord(token) == token \in {"w", "function", "v3", "v4"}
IsNewline(token) == token = "\n"

Lit(text, at, token) ==
    {i + 1 : i \in {j \in at : j <= Len(text) /\ text[j] = token}}
WordStar(text, at) ==
    {j \in 1..(Len(text) + 1) :
        \E i \in at : i <= j /\ \A k \in i..(j - 1) : IsWord(text[k])}
DotStar(text, at) ==
    {j \in 1..(Len(text) + 1) :
        \E i \in at : i <= j /\ \A k \in i..(j - 1) : ~IsNewline(text[k])}

reTest(precompiled) ==
    /\ precompiled.type = "string"
    /\ LET text == precompiled.text
           s0 == DotStar(text, 1..(Len(text) + 1))
           s1 == WordStar(text, Lit(text, s0, QCompiler))
           s2 == WordStar(text, Lit(text, s1, ":"))
           s3 == DotStar(text, Lit(text, s2, "["))
           s4 == WordStar(text, Lit(text, s3, QMain))
           s5 == WordStar(text, Lit(text, s4, ":"))
       IN  Lit(text, s5, "function") # {}

\* eval(`template = ${precompiled}`): the object the text denotes, or a
\* SyntaxError.
Eval(text) ==
    IF \E s \in Sources, v \in Versions : text = Artifact(s, v)
    THEN [ok |-> TRUE, compiler |-> text[5], main |-> text[11]]
    ELSE IF \E s \in Sources, v \in Versions : text = SpacedArtifact(s, v)
    THEN [ok |-> TRUE, compiler |-> text[7], main |-> text[14]]
    ELSE [ok |-> FALSE, compiler |-> "none", main |-> "none"]

\* handlebars.template(spec): the executable template, after the version check.
handlebarsTemplate(spec) ==
    IF spec.compiler # hbVersion
    THEN [ok |-> FALSE, value |-> JsUndefined,
          message |-> <<"Template was precompiled with another version">>]
    ELSE [ok |-> TRUE, value |-> JsFunction(spec.main), message |-> <<>>]

_tryRestoringPrecompiled(precompiled) ==
    IF ~reTest(precompiled)
    THEN [ok |-> TRUE, value |-> precompiled, message |-> <<>>]
    ELSE LET spec == Eval(precompiled.text)
         IN  IF ~spec.ok
             THEN [ok |-> FALSE, value |-> JsUndefined,
                   message |-> <<"Unexpected token">>]
             ELSE handlebarsTemplate(spec)

\* ------------------------------------------------------------ state
VARIABLES
    partials,         \* this.handlebars.partials: path -> stored value
    _translator,      \* this._translator
    _decorators,      \* this._decorators
    _contentRegions,  \* this._contentRegions
    storage,          \* this.helperContext.storage
    otherStorage,     \* helperContext.storage of a second renderer instance
    helpers,          \* const helpers = require('./helpers'): the descriptors
    handlebarsHelpers,\* this.handlebars.helpers: name -> registered callable
    factoryCalls,     \* the factory invocations so far, in order
    last              \* the last call of the public surface and how it ended

vars == <<partials, _translator, _decorators, _contentRegions, storage,
          otherStorage, helpers, handlebarsHelpers, factoryCalls, last>>

NoPartials == [p \in Paths |-> JsUndefined]
NoProcessed == [p \in Paths |-> JsUndefined]

\* A call record: the operation and its arguments, what it returned or threw,
\* and what it did on the way.
Call ==
    [op |-> "constructor",
     path |-> "none",            \* render, isTemplateLoaded: the path asked for
     templates |-> <<>>,         \* addTemplates, pre-processor: the entries passed
     source |-> JsUndefined,     \* renderString: the template passed
     decorator |-> "none",       \* addDecorator: the decorator passed
     ctxIn |-> NullContext,      \* the caller's context before the call
     ctxOut |-> NullContext,     \* the caller's context after the call
     ran |-> FALSE,              \* a template was called
     seen |-> NullContext,       \* the context the template was called with
     calls |-> <<>>,             \* the decorators invoked, in order
     returned |-> FALSE,         \* the call returned a string
     out |-> <<>>,               \* the string returned
     flag |-> FALSE,             \* isTemplateLoaded's answer
     regions |-> {},             \* addContent's argument, getContent's answer
     processed |-> NoProcessed,  \* the pre-processor's answer
     err |-> NoError,            \* what was thrown
     entry |-> "none",           \* the entry in hand when it was thrown
     registered |-> <<>>,        \* addTemplates: the paths registered, in order
     skipped |-> {}]             \* addTemplates: the paths skipped

\* The helper descriptors: a name and a factory.  The names are the first of
\* the list the helpers module exports; a factory is told from the others by
\* its place in the declaration.
HelperNames == {"all", "any", "block"}
Helper(name, factory) == [name |-> name, factory |-> factory]
DeclaredHelpers == <<Helper("all", 1), Helper("any", 2), Helper("block", 3)>>
HelperLists ==
    {[i \in 1..MaxHelpers |-> Helper(names[i], i)] :
        names \in [1..MaxHelpers -> HelperNames]}

\* this.helperContext: the one object the constructor builds.
helperContext == "this.helperContext"
NoHelpers == [n \in HelperNames |-> "none"]

\* spec.factory(context): the callable a factory returns holds the context it
\* was given.
Factory(spec, context) == [factory |-> spec.factory, context |-> context]

\* handlebars.registerHelper(name, fn): the name is bound to fn, over whatever
\* it was bound to.
registerHelper(registry, name, fn) == [registry EXCEPT ![name] = fn]

\* A loop that hands every factory a copy of the helper context.
RECURSIVE forEachHelperCopying(_, _, _)
forEachHelperCopying(specs, registry, calls) ==
    IF specs = <<>>
    THEN [helpers |-> registry, calls |-> calls]
    ELSE LET spec == Head(specs)
             fn == Factory(spec, <<"copy of", helperContext, spec.factory>>)
         IN  forEachHelperCopying(Tail(specs),
                                  registerHelper(registry, spec.name, fn),
                                  Append(calls, fn))

\* helpers.forEach(spec => this.handlebars.registerHelper(spec.name,
\* spec.factory(this.helperContext)))
RECURSIVE forEachHelper(_, _, _)
forEachHelper(specs, registry, calls) ==
    IF specs = <<>>
    THEN [helpers |-> registry, calls |-> calls]
    ELSE LET spec == Head(specs)
             fn == Factory(spec, helperContext)
         IN  forEachHelper(Tail(specs),
                           registerHelper(registry, spec.name, fn),
                           Append(calls, fn))

\* constructor(siteSettings, themeSettings, hbVersion), with the descriptors
\* the helpers module exports.
constructor(specs) ==
    /\ partials = NoPartials
    /\ _translator = NoTranslator
    /\ _decorators = <<>>
    /\ _contentRegions = {}
    /\ storage = {}
    /\ otherStorage = {}
    /\ helpers = specs
    /\ handlebarsHelpers = forEachHelper(specs, NoHelpers, <<>>).helpers
    /\ factoryCalls = forEachHelper(specs, NoHelpers, <<>>).calls
    /\ last = Call

Init == constructor(DeclaredHelpers)

\* ------------------------------------------------------------ setters
setTranslator(translator) ==
    /\ _translator' = translator
    /\ last' = [Call EXCEPT !.op = "setTranslator"]
    /\ UNCHANGED <<partials, _decorators, _contentRegions, storage, otherStorage,
                     helpers, handlebarsHelpers, factoryCalls>>

\* An addDecorator that keeps one copy of each decorator.
addDecoratorUnique(decorator) ==
    /\ Len(_decorators) < MaxDecorators
    /\ _decorators' = IF \E i \in 1..Len(_decorators) : _decorators[i] = decorator
                      THEN _decorators
                      ELSE Append(_decorators, decorator)
    /\ last' = [Call EXCEPT !.op = "addDecorator", !.decorator = decorator]
    /\ UNCHANGED <<partials, _translator, _contentRegions, storage, otherStorage,
                     helpers, handlebarsHelpers, factoryCalls>>

addDecorator(decorator) ==
    /\ Len(_decorators) < MaxDecorators
    /\ _decorators' = Append(_decorators, decorator)
    /\ last' = [Call EXCEPT !.op = "addDecorator", !.decorator = decorator]
    /\ UNCHANGED <<partials, _translator, _contentRegions, storage, otherStorage,
                     helpers, handlebarsHelpers, factoryCalls>>

\* An addContent that merges the regions passed into the ones held.
addContentMerging(regions) ==
    /\ _contentRegions' = _contentRegions \cup regions
    /\ last' = [Call EXCEPT !.op = "addContent", !.regions = regions]
    /\ UNCHANGED <<partials, _translator, _decorators, storage, otherStorage,
                     helpers, handlebarsHelpers, factoryCalls>>

addContent(regions) ==
    /\ _contentRegions' = regions
    /\ last' = [Call EXCEPT !.op = "addContent", !.regions = regions]
    /\ UNCHANGED <<partials, _translator, _decorators, storage, otherStorage,
                     helpers, handlebarsHelpers, factoryCalls>>

getContent ==
    /\ last' = [Call EXCEPT !.op = "getContent", !.regions = _contentRegions]
    /\ UNCHANGED <<partials, _translator, _decorators, _contentRegions, storage,
                     otherStorage,
                     helpers, handlebarsHelpers, factoryCalls>>

isTemplateLoaded(path) ==
    /\ last' = [Call EXCEPT !.op = "isTemplateLoaded", !.path = path,
                            !.flag = (partials[path].type # "undefined")]
    /\ UNCHANGED <<partials, _translator, _decorators, _contentRegions, storage,
                     otherStorage,
                     helpers, handlebarsHelpers, factoryCalls>>

\* ------------------------------------------------------------ addTemplates
\* The templates object of a call, as its entries in iteration order.
Entry(path, value) == [path |-> path, template |-> value]
Batches(values) ==
    {<<Entry(p, v)>> : p \in Paths, v \in values}
    \cup {<<Entry(pq[1], v), Entry(pq[2], w)>> :
            pq \in {x \in Paths \X Paths : x[1] # x[2]},
            v \in values, w \in values}

\* What callers hand to addTemplates: nothing, raw text, this engine's
\* artifacts, an artifact of the other engine, and an artifact of this engine
\* that went through a formatter.
Payloads ==
    {JsUndefined, JsString(<<"page">>),
     JsString(Artifact("page", "v3")), JsString(Artifact("boom", "v3")),
     JsString(Artifact("page", "v4")), JsString(SpacedArtifact("page", "v3"))}

\* A store that takes every entry: the check of line 97 left out.
neverRegistered(parts, path) == FALSE

\* typeof this.handlebars.partials[path] !== 'undefined': first one wins.
alreadyRegistered(parts, path) == parts[path].type # "undefined"

\* An addTemplates loop that goes on to the entries after one that cannot be
\* restored, and reports the first failure when it is through.
RECURSIVE eachTemplateBestEffort(_, _, _, _)
eachTemplateBestEffort(parts, templates, registered, skipped) ==
    IF templates = <<>>
    THEN [partials |-> parts, err |-> NoError, entry |-> "none",
          registered |-> registered, skipped |-> skipped]
    ELSE LET path == Head(templates).path
             restored == _tryRestoringPrecompiled(Head(templates).template)
             done == registerPartial(parts, path, restored.value)
             rest == eachTemplateBestEffort(parts, Tail(templates), registered,
                                            skipped)
         IN  IF alreadyRegistered(parts, path)
             THEN eachTemplateBestEffort(parts, Tail(templates), registered,
                                         skipped \cup {path})
             ELSE IF ~restored.ok
             THEN [rest EXCEPT
                     !.err = AppError("FormatError", restored.message, "none"),
                     !.entry = path]
             ELSE IF ~done.ok
             THEN [partials |-> parts, err |-> Untyped(done.message),
                   entry |-> path, registered |-> registered, skipped |-> skipped]
             ELSE eachTemplateBestEffort(done.partials, Tail(templates),
                                         Append(registered, path), skipped)

\* _.each(templates, (template, path) => ...): the callback on each entry in
\* turn, until one throws.
RECURSIVE eachTemplate(_, _, _, _)
eachTemplate(parts, templates, registered, skipped) ==
    IF templates = <<>>
    THEN [partials |-> parts, err |-> NoError, entry |-> "none",
          registered |-> registered, skipped |-> skipped]
    ELSE LET path == Head(templates).path
             restored == _tryRestoringPrecompiled(Head(templates).template)
             done == registerPartial(parts, path, restored.value)
         IN  IF alreadyRegistered(parts, path)
             THEN eachTemplate(parts, Tail(templates), registered,
                               skipped \cup {path})
             ELSE IF ~restored.ok
             THEN [partials |-> parts,
                   err |-> AppError("FormatError", restored.message, "none"),
                   entry |-> path, registered |-> registered, skipped |-> skipped]
             ELSE IF ~done.ok
             THEN [partials |-> parts, err |-> Untyped(done.message),
                   entry |-> path, registered |-> registered, skipped |-> skipped]
             ELSE eachTemplate(done.partials, Tail(templates),
                               Append(registered, path), skipped)

addTemplates(templates) ==
    LET r == eachTemplate(partials, templates, <<>>, {})
    IN  /\ partials' = r.partials
        /\ last' = [Call EXCEPT !.op = "addTemplates", !.templates = templates,
                                !.err = r.err,
                                !.entry = r.entry, !.registered = r.registered,
                                !.skipped = r.skipped]
        /\ UNCHANGED <<_translator, _decorators, _contentRegions, storage, otherStorage,
                     helpers, handlebarsHelpers, factoryCalls>>

\* ------------------------------------------------------------ getPreProcessor
PreProcessorInputs == {JsString(<<"page">>), JsString(<<"bad">>)}

\* A pre-processor that reports the failure without the entry's path.
RECURSIVE eachSourceUntagged(_, _)
eachSourceUntagged(templates, processed) ==
    IF templates = <<>>
    THEN [processed |-> processed, err |-> NoError, entry |-> "none"]
    ELSE LET path == Head(templates).path
             compiled == precompile(Head(templates).template)
         IN  IF ~compiled.ok
             THEN [processed |-> processed,
                   err |-> AppError("CompileError", compiled.message, "none"),
                   entry |-> path]
             ELSE eachSourceUntagged(Tail(templates),
                                     [processed EXCEPT ![path] = compiled.value])

RECURSIVE eachSource(_, _)
eachSource(templates, processed) ==
    IF templates = <<>>
    THEN [processed |-> processed, err |-> NoError, entry |-> "none"]
    ELSE LET path == Head(templates).path
             compiled == precompile(Head(templates).template)
         IN  IF ~compiled.ok
             THEN [processed |-> processed,
                   err |-> AppError("CompileError", compiled.message, path),
                   entry |-> path]
             ELSE eachSource(Tail(templates),
                             [processed EXCEPT ![path] = compiled.value])

\* The function getPreProcessor() returns, applied to templates.  What it had
\* processed when it threw is kept in the call record; the caller
\* gets the map only on return.
preProcessor(templates) ==
    LET r == eachSource(templates, NoProcessed)
    IN  /\ last' = [Call EXCEPT !.op = "preProcessor", !.templates = templates,
                                !.err = r.err,
                                !.entry = r.entry, !.processed = r.processed,
                                !.returned = (r.err = NoError)]
        /\ UNCHANGED <<partials, _translator, _decorators, _contentRegions, storage,
                     otherStorage,
                     helpers, handlebarsHelpers, factoryCalls>>

\* ------------------------------------------------------------ render
\* An augmentation that keeps the fields the caller's object already has.
augmentKeeping(context, path, translator) ==
    LET object == IF context.object THEN context ELSE EmptyObject
        named == IF object.template = "undefined"
                 THEN [object EXCEPT !.template = path] ELSE object
    IN  IF ~translator.set
        THEN [ok |-> TRUE, context |-> named, message |-> <<>>]
        ELSE IF translator.throws
        THEN [ok |-> FALSE, context |-> named, message |-> <<"getLocale failed">>]
        ELSE [ok |-> TRUE,
              context |-> IF named.locale_name = "undefined"
                          THEN [named EXCEPT !.locale_name = translator.locale]
                          ELSE named,
              message |-> <<>>]

\* context = context || {}; context.template = path; and locale_name when a
\* translator is set.  The caller's object is the one written.
augment(context, path, translator) ==
    LET object == IF context.object THEN context ELSE EmptyObject
        named == [object EXCEPT !.template = path]
    IN  IF ~translator.set
        THEN [ok |-> TRUE, context |-> named, message |-> <<>>]
        ELSE IF translator.throws
        THEN [ok |-> FALSE, context |-> named, message |-> <<"getLocale failed">>]
        ELSE [ok |-> TRUE, context |-> [named EXCEPT !.locale_name = translator.locale],
              message |-> <<>>]

\* A chain that goes on past a decorator that throws (best effort).
RECURSIVE eachDecoratorBestEffort(_, _, _)
eachDecoratorBestEffort(decorators, result, calls) ==
    IF decorators = <<>>
    THEN [ok |-> TRUE, result |-> result, calls |-> calls, message |-> <<>>]
    ELSE LET fn == Head(decorators)
             r == Decorate(fn, result)
         IN  eachDecoratorBestEffort(Tail(decorators),
                                     IF r.ok THEN r.value ELSE result,
                                     Append(calls, fn))

\* _.each(this._decorators, fn => { result = fn(result); }): until one throws.
RECURSIVE eachDecorator(_, _, _)
eachDecorator(decorators, result, calls) ==
    IF decorators = <<>>
    THEN [ok |-> TRUE, result |-> result, calls |-> calls, message |-> <<>>]
    ELSE LET fn == Head(decorators)
             r == Decorate(fn, result)
         IN  IF ~r.ok
             THEN [ok |-> FALSE, result |-> result, calls |-> Append(calls, fn),
                   message |-> r.message]
             ELSE eachDecorator(Tail(decorators), r.value, Append(calls, fn))

\* A render that works on a copy: the caller's object stays as it was.
CallerContextCopied(context, written) == context

\* What the caller holds after the call: its own object, written in place.
CallerContext(context, written) == IF context.object THEN written ELSE context

\* A render that hands the decorators whatever the template left, failed or
\* not, before it reports the template's failure.
renderCallDecoratingAnyway(parts, translator, decorators, store, content, path, context) ==
    LET aug == augment(context, path, translator)
        base == [Call EXCEPT !.op = "render", !.path = path, !.ctxIn = context,
                             !.ctxOut = CallerContext(context, aug.context)]
        found == parts[path]
        run == CallTemplate(found, aug.context, store, content)
        ran == [base EXCEPT !.ran = TRUE, !.seen = aug.context]
        dec == eachDecorator(decorators, run.out, <<>>)
    IN  IF ~aug.ok
        THEN [call |-> [base EXCEPT !.err = Untyped(aug.message)],
              storage |-> store]
        ELSE IF found.type = "undefined"
        THEN [call |-> [base EXCEPT !.err =
                  AppError("TemplateNotFoundError",
                           <<"template not found: ", path>>, "none")],
              storage |-> store]
        ELSE IF ~run.ok
        THEN [call |-> [ran EXCEPT !.calls = dec.calls,
                                   !.err = AppError("RenderError", run.message, "none")],
              storage |-> run.storage]
        ELSE IF ~dec.ok
        THEN [call |-> [ran EXCEPT !.calls = dec.calls,
                                   !.err = AppError("DecoratorError", dec.message, "none")],
              storage |-> run.storage]
        ELSE [call |-> [ran EXCEPT !.calls = dec.calls, !.returned = TRUE,
                                   !.out = dec.result],
              storage |-> run.storage]

\* render(path, context) on a renderer in the given state: the call record and
\* the helpers' storage after it.
renderCall(parts, translator, decorators, store, content, path, context) ==
    LET aug == augment(context, path, translator)
        base == [Call EXCEPT !.op = "render", !.path = path, !.ctxIn = context,
                             !.ctxOut = CallerContext(context, aug.context)]
        found == parts[path]
        run == CallTemplate(found, aug.context, store, content)
        ran == [base EXCEPT !.ran = TRUE, !.seen = aug.context]
        dec == eachDecorator(decorators, run.out, <<>>)
    IN  IF ~aug.ok
        THEN [call |-> [base EXCEPT !.err = Untyped(aug.message)],
              storage |-> store]
        ELSE IF found.type = "undefined"
        THEN [call |-> [base EXCEPT !.err =
                  AppError("TemplateNotFoundError",
                           <<"template not found: ", path>>, "none")],
              storage |-> store]
        ELSE IF ~run.ok
        THEN [call |-> [ran EXCEPT !.err = AppError("RenderError", run.message, "none")],
              storage |-> run.storage]
        ELSE IF ~dec.ok
        THEN [call |-> [ran EXCEPT !.calls = dec.calls,
                                   !.err = AppError("DecoratorError", dec.message, "none")],
              storage |-> run.storage]
        ELSE [call |-> [ran EXCEPT !.calls = dec.calls, !.returned = TRUE,
                                   !.out = dec.result],
              storage |-> run.storage]

\* A render that registers an empty partial for a path it does not find.
renderRegistering(path, context) ==
    LET r == renderCall(partials, _translator, _decorators, storage,
                       _contentRegions, path, context)
    IN  /\ last' = r.call
        /\ storage' = r.storage
        /\ partials' = IF partials[path].type = "undefined"
                       THEN [partials EXCEPT ![path] = JsString(<<>>)]
                       ELSE partials
        /\ UNCHANGED <<_translator, _decorators, _contentRegions, otherStorage,
                     helpers, handlebarsHelpers, factoryCalls>>

\* A render whose helpers start from a storage of their own.
renderFreshStorage(path, context) ==
    LET r == renderCall(partials, _translator, _decorators, {},
                       _contentRegions, path, context)
    IN  /\ last' = r.call
        /\ storage' = r.storage
        /\ UNCHANGED <<partials, _translator, _decorators, _contentRegions,
                       otherStorage,
                     helpers, handlebarsHelpers, factoryCalls>>

render(path, context) ==
    LET r == renderCall(partials, _translator, _decorators, storage,
                       _contentRegions, path, context)
    IN  /\ last' = r.call
        /\ storage' = r.storage
        /\ UNCHANGED <<partials, _translator, _decorators, _contentRegions, otherStorage,
                     helpers, handlebarsHelpers, factoryCalls>>

\* ------------------------------------------------------------ renderString
StringInputs == {JsUndefined} \cup {JsString(<<s>>) : s \in Sources}

\* A renderString that shares render's tail: augmented context, decorators.
renderStringDecorated(store, content, source, context) ==
    LET object == IF context.object THEN context ELSE EmptyObject
        base == [Call EXCEPT !.op = "renderString", !.source = source,
                             !.ctxIn = context, !.ctxOut = context]
        compiled == compile(source)
        run == CallTemplate(compiled.value, object, store, content)
        ran == [base EXCEPT !.ran = TRUE, !.seen = object]
        dec == eachDecorator(_decorators, run.out, <<>>)
    IN  IF ~compiled.ok
        THEN [call |-> [base EXCEPT !.err =
                  AppError("CompileError", compiled.message, "none")],
              storage |-> store]
        ELSE IF ~run.ok
        THEN [call |-> [ran EXCEPT !.err = AppError("RenderError", run.message, "none")],
              storage |-> run.storage]
        ELSE IF ~dec.ok
        THEN [call |-> [ran EXCEPT !.calls = dec.calls,
                                   !.err = AppError("DecoratorError", dec.message, "none")],
              storage |-> run.storage]
        ELSE [call |-> [ran EXCEPT !.calls = dec.calls, !.returned = TRUE,
                                   !.out = dec.result],
              storage |-> run.storage]

renderStringCall(store, content, source, context) ==
    LET object == IF context.object THEN context ELSE EmptyObject
        base == [Call EXCEPT !.op = "renderString", !.source = source,
                             !.ctxIn = context,
                             !.ctxOut = context]
        compiled == compile(source)
        run == CallTemplate(compiled.value, object, store, content)
        ran == [base EXCEPT !.ran = TRUE, !.seen = object]
    IN  IF ~compiled.ok
        THEN [call |-> [base EXCEPT !.err =
                  AppError("CompileError", compiled.message, "none")],
              storage |-> store]
        ELSE IF ~run.ok
        THEN [call |-> [ran EXCEPT !.err = AppError("RenderError", run.message, "none")],
              storage |-> run.storage]
        ELSE [call |-> [ran EXCEPT !.returned = TRUE, !.out = run.out],
              storage |-> run.storage]

renderString(source, context) ==
    LET r == renderStringCall(storage, _contentRegions, source, context)
    IN  /\ last' = r.call
        /\ storage' = r.storage
        /\ UNCHANGED <<partials, _translator, _decorators, _contentRegions, otherStorage,
                     helpers, handlebarsHelpers, factoryCalls>>

\* renderString(source, context) on a second renderer instance: its constructor
\* built a helperContext and a storage of its own.
otherRenderString(source, context) ==
    LET r == renderStringCall(otherStorage, {}, source, context)
    IN  /\ last' = [r.call EXCEPT !.op = "other.renderString"]
        /\ otherStorage' = r.storage
        /\ UNCHANGED <<partials, _translator, _decorators, _contentRegions, storage,
                     helpers, handlebarsHelpers, factoryCalls>>

\* ------------------------------------------------------------ specifications
\* The callers' inputs.  Two specifications share the operations above and
\* differ in what the callers pass: Spec drives the render pipeline (translator,
\* decorators, content, render, renderString) over a store fed with this
\* engine's artifacts on one path; SpecStore drives the template store and the
\* pre-processor with every kind of payload on both paths.
PipelineBatches ==
    {<<Entry("a", v)>> :
        v \in {JsString(Artifact("page", "v3")), JsString(Artifact("boom", "v3"))}}
StoreBatches == Batches(Payloads)
SourceBatches == Batches(PreProcessorInputs)

Next ==
    \/ \E t \in Translators : setTranslator(t)
    \/ \E d \in Decorators : addDecorator(d)
    \/ \E r \in Regions : addContent(r)
    \/ getContent
    \/ \E p \in Paths : isTemplateLoaded(p)
    \/ \E b \in PipelineBatches : addTemplates(b)
    \/ \E p \in Paths, c \in Contexts : render(p, c)
    \/ \E s \in StringInputs, c \in Contexts : renderString(s, c)

Spec == Init /\ [][Next]_vars

NextStore ==
    \/ \E b \in StoreBatches : addTemplates(b)
    \/ \E b \in SourceBatches : preProcessor(b)
    \/ \E p \in Paths : isTemplateLoaded(p)
    \/ \E p \in Paths, c \in Contexts : render(p, c)
    \/ \E s \in {JsString(<<"page">>), JsString(<<"boom">>)} :
          otherRenderString(s, NullContext)

SpecStore == Init /\ [][NextStore]_vars

\* SpecHelpers starts from every list of descriptors over the names, lists
\* that declare a name twice among them, and drives the calls that reach the
\* helpers: a template run and the content the helper context hands out.
InitHelpers == \E specs \in HelperLists : constructor(specs)

NextHelpers ==
    \/ \E r \in Regions : addContent(r)
    \/ getContent
    \/ \E c \in Contexts : renderString(JsString(<<"page">>), c)

SpecHelpers == InitHelpers /\ [][NextHelpers]_vars

\* ------------------------------------------------------------ properties
InSeq(x, s) == \E i \in 1..Len(s) : s[i] = x
BatchPaths(templates) == {templates[i].path : i \in 1..Len(templates)}
Outcome(call) == [returned |-> call.returned, out |-> call.out]

\* C1: first registration wins.  Once a path is registered, no step changes
\* what it is bound to, and a later addTemplates entry for it is skipped: it
\* raises nothing and registers nothing.  A path becomes bound only by
\* addTemplates, to what restoring that entry's payload gives.
C1_FirstRegistrationWins ==
    [][\A p \in Paths :
        /\ partials[p].type # "undefined" =>
             /\ partials'[p] = partials[p]
             /\ (last'.op = "addTemplates" /\ p \in BatchPaths(last'.templates)) =>
                  /\ last'.entry # p
                  /\ ~InSeq(p, last'.registered)
                  /\ (last'.err = NoError => p \in last'.skipped)
        /\ (partials[p].type = "undefined" /\ partials'[p].type # "undefined") =>
             /\ last'.op = "addTemplates"
             /\ \E i \in 1..Len(last'.templates) :
                  /\ last'.templates[i].path = p
                  /\ partials'[p] =
                       _tryRestoringPrecompiled(last'.templates[i].template).value
      ]_vars

\* A call that skipped an entry whose payload differs from the one registered.
C1_Witness ==
    /\ last.op = "addTemplates"
    /\ last.err = NoError
    /\ \E i \in 1..Len(last.templates) :
         /\ last.templates[i].path \in last.skipped
         /\ last.templates[i].template.type = "string"
         /\ _tryRestoringPrecompiled(last.templates[i].template).ok
         /\ _tryRestoringPrecompiled(last.templates[i].template).value
              # partials[last.templates[i].path]

\* C2: round trip.  A render of a path registered from raw source s ends as
\* the same render would on the renderer that was handed precompile(s) for
\* that path instead: the same string returned.
C2_RoundTrip ==
    [][\A s \in Sources :
        (/\ last'.op = "render"
         /\ partials[last'.path] = JsString(<<s>>)
         /\ precompile(JsString(<<s>>)).ok) =>
            LET artifact == precompile(JsString(<<s>>)).value
                other == [partials EXCEPT
                            ![last'.path] = _tryRestoringPrecompiled(artifact).value]
            IN  Outcome(last') =
                  Outcome(renderCall(other, _translator, _decorators, storage,
                                     _contentRegions, last'.path,
                                     last'.ctxIn).call)
      ]_vars

\* C3: every call of the public surface completes or raises one of the five
\* typed errors.
C3_OnlyTypedErrors == last.err.kind \in TypedErrors \cup {"none"}

\* C4: a render of a path that is not in the store raises
\* TemplateNotFoundError naming the path, calls no template and no decorator.
\* (render leaves the store alone, so the store after the call is the store
\* the call looked the path up in.)
C4_MissingTemplate ==
    (last.op = "render" /\ partials[last.path].type = "undefined") =>
        /\ last.err.kind = "TemplateNotFoundError"
        /\ InSeq(last.path, last.err.message)
        /\ ~last.returned
        /\ ~last.ran
        /\ last.calls = <<>>

\* C5: decorators run in the order they were added, each on the output of the
\* one before; at the first that throws the chain stops, DecoratorError is
\* raised and nothing is returned.  Stated for every render whose template ran
\* without failing; Throwing is the set of positions of throwing decorators.
Throwing(chain) == {i \in 1..Len(chain) : ~Decorate(chain[i], <<>>).ok}
FirstOf(S) == CHOOSE i \in S : \A j \in S : i <= j
C5_DecoratorOrder ==
    (last.op = "render" /\ last.ran /\ last.err.kind # "RenderError") =>
        IF Throwing(_decorators) = {}
        THEN /\ last.returned
             /\ last.err = NoError
             /\ last.calls = _decorators
             /\ \E k \in {"", "k"} :
                  last.out = <<last.seen.template, last.seen.locale_name, k,
                               Region(_contentRegions)>> \o _decorators
        ELSE /\ ~last.returned
             /\ last.out = <<>>
             /\ last.err.kind = "DecoratorError"
             /\ last.calls = SubSeq(_decorators, 1, FirstOf(Throwing(_decorators)))

\* A render whose first decorator threw with another one behind it.
C5_Witness ==
    /\ last.op = "render"
    /\ last.ran
    /\ _decorators = <<"X", "B">>
    /\ last.calls = <<"X">>
    /\ last.err.kind = "DecoratorError"

\* C6: a FormatError raised by addTemplates identifies the entry that failed:
\* its context or its message carries that entry's path.
C6_FormatErrorNamesEntry ==
    (last.op = "addTemplates" /\ last.err.kind = "FormatError") =>
        \/ last.err.path = last.entry
        \/ InSeq(last.entry, last.err.message)

\* C7: the pre-processor precompiles the entries in turn; at the first entry
\* whose precompilation fails it raises CompileError with that entry's path as
\* context; when none fails it returns every entry's serialization.
Failing(templates) ==
    {i \in 1..Len(templates) : ~precompile(templates[i].template).ok}
C7_CompileErrorNamesPath ==
    last.op = "preProcessor" =>
        LET T == last.templates
        IN  IF Failing(T) = {}
            THEN /\ last.returned
                 /\ last.err = NoError
                 /\ \A i \in 1..Len(T) :
                      last.processed[T[i].path] = precompile(T[i].template).value
            ELSE /\ ~last.returned
                 /\ last.err.kind = "CompileError"
                 /\ last.err.path = T[FirstOf(Failing(T))].path
                 /\ \A i \in 1..Len(T) :
                      i < FirstOf(Failing(T)) => last.err.path # T[i].path

\* A good entry followed by a bad one: the error names the bad one.
C7_Witness ==
    /\ last.op = "preProcessor"
    /\ last.templates = <<Entry("a", JsString(<<"page">>)),
                          Entry("b", JsString(<<"bad">>))>>
    /\ last.err.kind = "CompileError"
    /\ last.err.path = "b"
    /\ last.processed["a"].type = "string"

\* C8: the context a template is run with by render has template = path; with
\* a translator set it has locale_name = that translator's locale; with none,
\* locale_name is what the caller passed.
C8_ContextAugmentation ==
    (last.op = "render" /\ last.ran) =>
        /\ last.seen.template = last.path
        /\ _translator.set => last.seen.locale_name = _translator.locale
        /\ ~_translator.set => last.seen.locale_name = last.ctxIn.locale_name

\* A render under the second translator set, over a context that had both
\* fields.
C8_Witness ==
    /\ last.op = "render"
    /\ last.ran
    /\ last.ctxIn = OldContext
    /\ _translator = Translator("fr")
    /\ last.seen = [object |-> TRUE, template |-> last.path, locale_name |-> "fr"]

\* C9: renderString leaves the store and the chain alone, calls no decorator,
\* runs the template with the caller's context as passed and leaves that
\* context as it was; what it returns is what the template wrote; a failure
\* of compile raises CompileError, a failure of the run raises RenderError.
C9_RenderStringBypasses ==
    [][last'.op = "renderString" =>
        /\ partials' = partials
        /\ _decorators' = _decorators
        /\ last'.calls = <<>>
        /\ last'.ctxOut = last'.ctxIn
        /\ last'.err.kind \in {"none", "CompileError", "RenderError"}
        /\ ~compile(last'.source).ok =>
             ~last'.ran /\ last'.err.kind = "CompileError"
        /\ compile(last'.source).ok =>
             LET object == IF last'.ctxIn.object THEN last'.ctxIn ELSE EmptyObject
                 run == Execute(last'.source.text[1], object, storage,
                                _contentRegions)
             IN  /\ last'.ran
                 /\ last'.seen = object
                 /\ run.ok => last'.returned /\ last'.out = run.out
                 /\ ~run.ok => ~last'.returned /\ last'.err.kind = "RenderError"
      ]_vars

\* A renderString that returned with a decorator and a partial registered.
C9_Witness ==
    /\ last.op = "renderString"
    /\ last.returned
    /\ last.ctxIn = OldContext
    /\ SubSeq(last.out, 1, 3) = <<"old", "old", "">>
    /\ _decorators # <<>>
    /\ partials["a"].type # "undefined"

\* C10: render, renderString, isTemplateLoaded and getContent leave the
\* store, the chain, the content regions and the translator as they were.
Reads == {"render", "renderString", "isTemplateLoaded", "getContent"}
C10_ReadsLeaveState ==
    [][last'.op \in Reads =>
        UNCHANGED <<partials, _decorators, _contentRegions, _translator>>]_vars

\* A render that returned and changed the helpers' storage on the way.
C10_Witness ==
    /\ last.op = "render"
    /\ last.returned
    /\ last.out[3] = ""
    /\ "k" \in storage
    /\ _decorators # <<>>
    /\ _contentRegions # {}
    /\ _translator.set

\* C11: the decorator chain is append-only.  It is empty after construction;
\* an addDecorator call puts its argument at the end, one element longer,
\* whether or not the chain already holds it; no other call changes the chain.
C11_ChainAppendOnly ==
    /\ _decorators = <<>>
    /\ [][/\ last'.op = "addDecorator" =>
               _decorators' = Append(_decorators, last'.decorator)
          /\ last'.op # "addDecorator" => _decorators' = _decorators
         ]_vars

\* The same decorator added twice.
C11_Witness ==
    /\ last.op = "addDecorator"
    /\ last.decorator = "A"
    /\ _decorators = <<"A", "A">>

\* C12: the helpers' storage belongs to the renderer instance, not to a render.
\* It is created empty at construction; no call takes a value out of it and only
\* a call that runs a template changes it; a template run by a later render
\* sees what an earlier one wrote; and a call on one instance never changes
\* the storage of the other, whose templates see only their own instance's.
RendersHere == {"render", "renderString"}
RendersThere == {"other.renderString"}

C12_StoragePerInstance ==
    /\ storage = {} /\ otherStorage = {}
    /\ [][/\ storage \subseteq storage'
          /\ otherStorage \subseteq otherStorage'
          /\ last'.op \notin RendersHere => storage' = storage
          /\ last'.op \notin RendersThere => otherStorage' = otherStorage
          /\ (last'.op \in RendersHere /\ last'.returned) =>
                 (last'.out[3] = "k" <=> "k" \in storage)
          /\ (last'.op \in RendersThere /\ last'.returned) =>
                 (last'.out[3] = "k" <=> "k" \in otherStorage)
         ]_vars

\* A later render on this instance returned what an earlier one stored, after
\* the other instance had run a template and filled a storage of its own.
C12_Witness ==
    /\ last.op = "render"
    /\ last.returned
    /\ last.out[3] = "k"
    /\ storage = {"k"}
    /\ otherStorage = {"k"}

\* C13: content regions are replaced wholesale.  They are empty after
\* construction; addContent leaves exactly its argument in place of what was
\* held, and nothing else changes them; getContent returns what is held; and a
\* helper of a template run by render or renderString reads that same value.
C13_ContentReplaced ==
    /\ _contentRegions = {}
    /\ [][/\ last'.op = "addContent" => _contentRegions' = last'.regions
          /\ last'.op # "addContent" => _contentRegions' = _contentRegions
          /\ last'.op = "getContent" => last'.regions = _contentRegions
          /\ (last'.op \in RendersHere /\ last'.returned) =>
                 last'.out[4] = Region(_contentRegions)
         ]_vars

\* An addContent has put the footer in place and a helper of a rendered
\* template printed it.
C13_Witness ==
    /\ last.op = "render"
    /\ last.returned
    /\ last.out[4] = "footer"
    /\ _contentRegions = {"footer"}

\* C14: a payload is taken for a precompiled artifact when it holds a
\* "compiler" key bound to an array and, after it, a "main" key bound to a
\* function, with any white space around the colons and any text, line breaks
\* included, before and between the two; such a payload is registered as the
\* restored template, and any other payload is registered as it was passed.
IsSpace(token) == token \in {" ", "\n"}
SpaceStar(text, at) ==
    {j \in 1..(Len(text) + 1) :
        \E i \in at : i <= j /\ \A k \in i..(j - 1) : IsSpace(text[k])}
AnyStar(text, at) == {j \in 1..(Len(text) + 1) : \E i \in at : i <= j}
HasSignature(text) ==
    LET s0 == 1..(Len(text) + 1)
        s1 == SpaceStar(text, Lit(text, s0, QCompiler))
        s2 == SpaceStar(text, Lit(text, s1, ":"))
        s3 == AnyStar(text, Lit(text, s2, "["))
        s4 == SpaceStar(text, Lit(text, s3, QMain))
        s5 == SpaceStar(text, Lit(text, s4, ":"))
    IN  Lit(text, s5, "function") # {}

C14_SignatureClassified ==
    last.op = "addTemplates" =>
        \A i \in 1..Len(last.templates) :
            LET e == last.templates[i]
            IN  (InSeq(e.path, last.registered) /\ e.template.type = "string") =>
                    IF HasSignature(e.template.text)
                    THEN partials[e.path].type = "function"
                    ELSE partials[e.path] = e.template

\* C15: render goes through lookup, execution and decorators in that order and
\* stops at the first phase that fails.  A template is called only when the
\* lookup found one; a failed call raises RenderError with the message of the
\* failure and no decorator is invoked; a decorator is invoked, and
\* DecoratorError raised, only after the call succeeded; and render returns a
\* string exactly when it raised nothing.
C15_PhaseOrder ==
    last.op = "render" =>
        LET found == partials[last.path]
            fails == \/ found.type # "function"
                     \/ ~Execute(found.source, last.seen, storage,
                                 _contentRegions).ok
            run == CallTemplate(found, last.seen, storage, _contentRegions)
        IN  /\ last.returned <=> last.err = NoError
            /\ last.ran => found.type # "undefined"
            /\ last.err.kind = "TemplateNotFoundError" =>
                   ~last.ran /\ last.calls = <<>>
            /\ (last.ran /\ fails) =>
                   /\ last.err.kind = "RenderError"
                   /\ last.err.message = run.message
                   /\ last.calls = <<>>
            /\ last.err.kind = "RenderError" => last.ran /\ fails
            /\ last.calls # <<>> => last.ran /\ ~fails
            /\ last.err.kind = "DecoratorError" =>
                   last.ran /\ ~fails /\ last.calls # <<>>

\* A template that failed, with two decorators waiting.
C15_Witness ==
    /\ last.op = "render"
    /\ last.ran
    /\ last.err.kind = "RenderError"
    /\ last.err.message = <<"Missing helper">>
    /\ last.calls = <<>>
    /\ _decorators = <<"A", "B">>

\* C16: isTemplateLoaded and render agree, and loading is permanent.  No path
\* is loaded after construction; a path becomes loaded in the addTemplates call
\* that registers it, and in no other step, and stays loaded; isTemplateLoaded
\* answers whether the path is loaded; and a render raises
\* TemplateNotFoundError exactly when its path is not loaded.
Loaded(parts, path) == parts[path].type # "undefined"

C16_LoadedAgreesWithRender ==
    /\ \A p \in Paths : ~Loaded(partials, p)
    /\ [](last.op = "isTemplateLoaded" => last.flag = Loaded(partials, last.path))
    /\ [](last.op = "render" =>
            (last.err.kind = "TemplateNotFoundError" <=>
                ~Loaded(partials, last.path)))
    /\ [][\A p \in Paths :
            /\ Loaded(partials, p) => Loaded(partials', p)
            /\ (~Loaded(partials, p) /\ Loaded(partials', p)) =>
                   last'.op = "addTemplates" /\ InSeq(p, last'.registered)
            /\ (last'.op = "addTemplates" /\ InSeq(p, last'.registered)) =>
                   ~Loaded(partials, p) /\ Loaded(partials', p)
         ]_vars

\* C17: addTemplates is not atomic.  When restoring an entry raises
\* FormatError, that entry's path is left unregistered; every entry before it
\* in the call is registered, with what the call restored for it or with what
\* it held before; every entry after it, and every path the call did not
\* name, holds what it held before the call.
FailedAt(call) ==
    CHOOSE k \in 1..Len(call.templates) : call.templates[k].path = call.entry

C17_NotAtomic ==
    [][(last'.op = "addTemplates" /\ last'.err.kind = "FormatError") =>
         LET T == last'.templates
             k == FailedAt(last')
         IN  /\ InSeq(last'.entry, [i \in 1..Len(T) |-> T[i].path])
             /\ ~Loaded(partials, T[k].path)
             /\ ~Loaded(partials', T[k].path)
             /\ \A i \in 1..(k - 1) :
                  /\ Loaded(partials', T[i].path)
                  /\ partials'[T[i].path] =
                       IF Loaded(partials, T[i].path)
                       THEN partials[T[i].path]
                       ELSE _tryRestoringPrecompiled(T[i].template).value
             /\ \A i \in (k + 1)..Len(T) :
                  partials'[T[i].path] = partials[T[i].path]
             /\ \A p \in Paths \ BatchPaths(T) : partials'[p] = partials[p]
      ]_vars

\* The first entry was registered by the call whose second entry failed, and
\* it stayed.
C17_Witness ==
    /\ last.op = "addTemplates"
    /\ last.err.kind = "FormatError"
    /\ last.templates = <<Entry("a", JsString(Artifact("page", "v3"))),
                          Entry("b", JsString(Artifact("page", "v4")))>>
    /\ last.registered = <<"a">>
    /\ partials["a"] = JsFunction("page")
    /\ ~Loaded(partials, "b")

\* C18: render writes into the caller's context before it looks the template
\* up.  After a render that was passed an object, however the render ended,
\* that object's template is the path rendered; its locale_name is the locale
\* the translator returned when one is set and returns, and is what the caller
\* had put there otherwise.
C18_CallerContextWritten ==
    (last.op = "render" /\ last.ctxIn.object) =>
        /\ last.ctxOut.object
        /\ last.ctxOut.template = last.path
        /\ last.ctxOut.locale_name =
             IF _translator.set /\ ~_translator.throws
             THEN _translator.locale
             ELSE last.ctxIn.locale_name

\* A render of a path that is not in the store left the path and the locale in
\* the caller's object, over what was there.
C18_Witness ==
    /\ last.op = "render"
    /\ last.err.kind = "TemplateNotFoundError"
    /\ last.ctxIn = OldContext
    /\ last.path = "b"
    /\ last.ctxOut.template = "b"
    /\ last.ctxOut.locale_name = "fr"

\* C19: helpers are registered at construction.  The factory of every
\* descriptor is invoked exactly once, in declaration order, each with the one
\* helper context of the renderer; every declared name is bound to what the
\* factory of the last descriptor of that name returned, and no other name is
\* bound; and no later call invokes a factory or binds a name again.
LastNamed(specs, name) ==
    CHOOSE i \in 1..Len(specs) :
        /\ specs[i].name = name
        /\ \A j \in (i + 1)..Len(specs) : specs[j].name # name

C19_HelpersRegisteredOnce ==
    /\ [](/\ Len(factoryCalls) = Len(helpers)
          /\ \A i \in 1..Len(helpers) :
               /\ factoryCalls[i].factory = helpers[i].factory
               /\ factoryCalls[i].context = helperContext
          /\ \A n \in HelperNames :
               IF \E i \in 1..Len(helpers) : helpers[i].name = n
               THEN handlebarsHelpers[n] = factoryCalls[LastNamed(helpers, n)]
               ELSE handlebarsHelpers[n] = "none")
    /\ [][factoryCalls' = factoryCalls /\ handlebarsHelpers' = handlebarsHelpers]_vars

\* A list that declares "all" first and last and "any" in between: "all" is
\* bound to the last one's callable, and a template has been run since.
C19_Witness ==
    /\ helpers[1].name = "all"
    /\ helpers[2].name = "any"
    /\ helpers[Len(helpers)].name = "all"
    /\ handlebarsHelpers["all"] =
         Factory(helpers[Len(helpers)], helperContext)
    /\ handlebarsHelpers["block"] = "none"
    /\ Len(factoryCalls) = Len(helpers)
    /\ last.op = "renderString"
    /\ last.returned

====
